---- MODULE Spec2Model ----
(***************************************************************************)
(* Model of src/app.py, the Partner Revenue Projection dashboard.          *)
(*                                                                         *)
(* The script is a Streamlit page: every run reads the four sidebar        *)
(* widgets, calls calculate_projections, derives the comparison metrics    *)
(* and the "Key Insights" figures, and is run again when a widget changes. *)
(*                                                                         *)
(* Numbers.  The script computes with Python floats.  The model computes   *)
(* with exact rationals [n |-> numerator, d |-> denominator] kept in       *)
(* lowest terms with d > 0, so that sums, products, comparisons with the   *)
(* tier thresholds, int() and ceil() are the exact counterparts of the     *)
(* float operations.  Binary rounding error of the floats is not modelled. *)
(***************************************************************************)
EXTENDS Integers, Sequences, FiniteSets

VARIABLES
    monthly_new_users,              \* st.number_input "Monthly New Users" (int)
    conversion_rate,                \* st.slider "Conversion Rate (%)" (rational)
    current_avg_revenue,            \* st.number_input "Current Avg Revenue" (rational)
    num_months,                     \* st.slider "Number of Months to Project" (int)
    pc,                             \* position of the script run
    month,                          \* loop variable of calculate_projections
    cumulative_users,               \* accumulators of calculate_projections
    cumulative_converted,
    cumulative_revenue,
    data,                           \* the list of row dicts / the DataFrame df
    partner_revenue_per_student,    \* comparison metrics
    additional_revenue_percentage,
    months_to_partner,              \* "Key Insights" estimate
    zero_division,                  \* TRUE once a division by zero was evaluated
    probe,                          \* argument of a stand-alone tier lookup
    probe_tier,                     \* its get_tier_name result
    probe_share                     \* its calculate_revenue_share result

vars == <<monthly_new_users, conversion_rate, current_avg_revenue, num_months,
          pc, month, cumulative_users, cumulative_converted, cumulative_revenue,
          data, partner_revenue_per_student, additional_revenue_percentage,
          months_to_partner, zero_division, probe, probe_tier, probe_share>>

(***************************************************************************)
(* Bounds of the model.                                                    *)
(***************************************************************************)
MaxMonths == 6

ProbeDelta == 8

ProbeDen == 4

(***************************************************************************)
(* Exact arithmetic standing for the float operators + * / < int ceil.     *)
(***************************************************************************)
Abs(x) == IF x < 0 THEN -x ELSE x

RECURSIVE GCD(_, _)
GCD(a, b) == IF b = 0 THEN a ELSE GCD(b, a % b)

Rat(n, d) ==
    LET g == GCD(Abs(n), d)
    IN  [n |-> IF n < 0 THEN -(Abs(n) \div g) ELSE n \div g, d |-> d \div g]

RatOf(i) == [n |-> i, d |-> 1]

Zero == RatOf(0)

Add(a, b) ==
    LET l == (a.d \div GCD(a.d, b.d)) * b.d
    IN  Rat(a.n * (l \div a.d) + b.n * (l \div b.d), l)

Neg(a) == [n |-> -a.n, d |-> a.d]

Sub(a, b) == Add(a, Neg(b))

Mul(a, b) ==
    LET g1 == GCD(Abs(a.n), b.d)
        g2 == GCD(Abs(b.n), a.d)
    IN  Rat((a.n \div g1) * (b.n \div g2), (a.d \div g2) * (b.d \div g1))

\* The value a division by zero leaves (d = 0): no number.
DivisionByZero == [n |-> 1, d |-> 0]

Div(a, b) ==
    IF b.n = 0 THEN DivisionByZero
    ELSE IF b.n > 0 THEN Mul(a, [n |-> b.d, d |-> b.n])
    ELSE Mul(a, [n |-> -b.d, d |-> -b.n])

Lt(a, b) == Sub(a, b).n < 0

Gt(a, b) == Lt(b, a)

\* int(x): truncation toward zero.
ToInt(x) == IF x.n >= 0 THEN x.n \div x.d ELSE -((-x.n) \div x.d)

\* int(np.ceil(x))
Ceil(x) == IF x.n >= 0 THEN (x.n + x.d - 1) \div x.d ELSE -((-x.n) \div x.d)

(***************************************************************************)
(* The tier table: get_tier_name and calculate_revenue_share.              *)
(***************************************************************************)
get_tier_name_inclusive(converted_users) ==
    IF ~Gt(converted_users, RatOf(1000)) THEN "Affiliate"
    ELSE IF ~Gt(converted_users, RatOf(2000)) THEN "Partner"
    ELSE IF ~Gt(converted_users, RatOf(3000)) THEN "Gold Partner"
    ELSE "Owner"

get_tier_name(converted_users) ==
    IF Lt(converted_users, RatOf(1000)) THEN "Affiliate"
    ELSE IF Lt(converted_users, RatOf(2000)) THEN "Partner"
    ELSE IF Lt(converted_users, RatOf(3000)) THEN "Gold Partner"
    ELSE "Owner"

calculate_revenue_share_swapped(converted_users) ==
    IF Lt(converted_users, RatOf(1000)) THEN 30
    ELSE IF Lt(converted_users, RatOf(2000)) THEN 65
    ELSE IF Lt(converted_users, RatOf(3000)) THEN 60
    ELSE 70

calculate_revenue_share(converted_users) ==
    IF Lt(converted_users, RatOf(1000)) THEN 30
    ELSE IF Lt(converted_users, RatOf(2000)) THEN 60
    ELSE IF Lt(converted_users, RatOf(3000)) THEN 65
    ELSE 70

(***************************************************************************)
(* calculate_projections: one iteration of the loop over the months.       *)
(***************************************************************************)
\* The month's conversions with the tuning-period factor on every month.
ConvertedUsersAlwaysHalf(m, users, rate) ==
    Mul(Mul(RatOf(users), Div(rate, RatOf(100))), Rat(1, 2))

\* The month's conversions truncated to a whole number before use.
ConvertedUsersTruncated(m, users, rate) ==
    IF m = 1
    THEN RatOf(ToInt(Mul(Mul(RatOf(users), Div(rate, RatOf(100))), Rat(1, 2))))
    ELSE RatOf(ToInt(Mul(RatOf(users), Div(rate, RatOf(100)))))

\* converted_users of month m: half rate for the first month.
ConvertedUsers(m, users, rate) ==
    IF m = 1
    THEN Mul(Mul(RatOf(users), Div(rate, RatOf(100))), Rat(1, 2))
    ELSE Mul(RatOf(users), Div(rate, RatOf(100)))

AccumulateMinus(total, x) == Sub(total, x)

\* total += x
Accumulate(total, x) == Add(total, x)

\* int(x) rounding to the nearest whole number instead of truncating.
StoredCountRounded(x) == ToInt(Add(x, Rat(1, 2)))

\* The int(...) applied to the counts a row stores.
StoredCount(x) == ToInt(x)

\* The loop body with the share looked up before the month's conversions
\* are added.
IterationShareBeforeIncrement(m, users, rate, cu, cc, cr) ==
    LET cu2              == cu + users
        converted_users   == ConvertedUsers(m, users, rate)
        cc2              == Accumulate(cc, converted_users)
        revenue_share_pct == calculate_revenue_share(cc)
        tier_name         == get_tier_name(cc)
        gross_revenue     == Mul(converted_users, RatOf(39))
        partner_revenue   == Mul(gross_revenue, Div(RatOf(revenue_share_pct), RatOf(100)))
        cr2              == Accumulate(cr, partner_revenue)
    IN  [cumulative_users     |-> cu2,
         cumulative_converted |-> cc2,
         cumulative_revenue   |-> cr2,
         row |-> [Month                   |-> <<"Month", m>>,
                  Month_Num               |-> m,
                  New_Users               |-> users,
                  Cumulative_Users        |-> cu2,
                  Converted_Users_Monthly |-> StoredCount(converted_users),
                  Cumulative_Converted    |-> StoredCount(cc2),
                  Tier                    |-> tier_name,
                  Revenue_Share_Pct       |-> revenue_share_pct,
                  Gross_Revenue           |-> gross_revenue,
                  Partner_Revenue         |-> partner_revenue,
                  Cumulative_Revenue      |-> cr2,
                  Target_50_Pct           |-> Mul(cr2, Rat(1, 2))]]

\* The loop body: the accumulators after month m and the row it appends.
Iteration(m, users, rate, cu, cc, cr) ==
    LET cu2              == cu + users
        converted_users   == ConvertedUsers(m, users, rate)
        cc2              == Accumulate(cc, converted_users)
        revenue_share_pct == calculate_revenue_share(cc2)
        tier_name         == get_tier_name(cc2)
        gross_revenue     == Mul(converted_users, RatOf(39))
        partner_revenue   == Mul(gross_revenue, Div(RatOf(revenue_share_pct), RatOf(100)))
        cr2              == Accumulate(cr, partner_revenue)
    IN  [cumulative_users     |-> cu2,
         cumulative_converted |-> cc2,
         cumulative_revenue   |-> cr2,
         row |-> [Month                   |-> <<"Month", m>>,
                  Month_Num               |-> m,
                  New_Users               |-> users,
                  Cumulative_Users        |-> cu2,
                  Converted_Users_Monthly |-> StoredCount(converted_users),
                  Cumulative_Converted    |-> StoredCount(cc2),
                  Tier                    |-> tier_name,
                  Revenue_Share_Pct       |-> revenue_share_pct,
                  Gross_Revenue           |-> gross_revenue,
                  Partner_Revenue         |-> partner_revenue,
                  Cumulative_Revenue      |-> cr2,
                  Target_50_Pct           |-> Mul(cr2, Rat(1, 2))]]

(***************************************************************************)
(* The comparison metrics and the months-to-Partner estimate.              *)
(***************************************************************************)
\* df['Revenue Share %'].iloc[-1]
FinalShare(df) == df[Len(df)].Revenue_Share_Pct

PartnerRevenuePerStudent(rate, share) ==
    Mul(Mul(RatOf(39), Div(rate, RatOf(100))), Div(RatOf(share), RatOf(100)))

AdditionalRevenuePercentageUnguarded(per_student, avg) ==
    Mul(Div(per_student, avg), RatOf(100))

AdditionalRevenuePercentage(per_student, avg) ==
    IF Gt(avg, Zero) THEN Mul(Div(per_student, avg), RatOf(100)) ELSE Zero

NotApplicable == [kind |-> "N/A", value |-> 0]

NotComputed == [kind |-> "unset", value |-> 0]

MonthsToPartnerUnguarded(users, rate) ==
    LET per_month == Div(Mul(RatOf(users), rate), RatOf(100))
        quotient  == Div(RatOf(1000), per_month)
    IN  IF quotient.d = 0 THEN [kind |-> "ZeroDivisionError", value |-> 0]
        ELSE [kind |-> "int", value |-> Ceil(quotient)]

\* The estimate with the rate taken as a fraction: the "/ 100" left out.
MonthsToPartnerRateAsFraction(users, rate) ==
    LET per_month == Mul(RatOf(users), rate)
    IN  IF Gt(per_month, Zero)
        THEN [kind |-> "int", value |-> Ceil(Div(RatOf(1000), per_month))]
        ELSE NotApplicable

\* int(np.ceil(1000 / (users * rate / 100))) if (users * rate / 100) > 0 else 'N/A'
MonthsToPartner(users, rate) ==
    LET per_month == Div(Mul(RatOf(users), rate), RatOf(100))
    IN  IF Gt(per_month, Zero)
        THEN [kind |-> "int", value |-> Ceil(Div(RatOf(1000), per_month))]
        ELSE NotApplicable

(***************************************************************************)
(* Widget values the model draws from.                                     *)
(***************************************************************************)
\* Monthly New Users: integers in 0..10000.
UserValues == {0, 10, 100, 1000, 1999, 2000, 2667, 4000, 10000}

\* Conversion Rate (%): 0.0 to 100.0 in steps of 0.5, here in half percents.
RateHalfPercents == {0, 1, 10, 20, 25, 50, 100, 120, 200}

RateValues == {Rat(h, 2) : h \in RateHalfPercents}

\* Current Avg Revenue per Student ($): 0.0 to 1000.0 in steps of 0.5.
AvgRevenueValues == {Rat(0, 2), Rat(1, 2), Rat(50, 2)}

\* calculate_projections accepts any num_months; the slider offers 3..24.
MonthValues == 1..MaxMonths

\* Arguments of the stand-alone tier lookups: the values within ProbeDelta
\* steps of 1/ProbeDen around each tier boundary, and values well inside
\* each range.
ProbeValues ==
    {Rat(t * ProbeDen + j, ProbeDen) :
        t \in {0, 1000, 2000, 3000}, j \in 0..ProbeDelta}
    \cup {Rat(t * ProbeDen - j, ProbeDen) :
        t \in {1000, 2000, 3000}, j \in 1..ProbeDelta}
    \cup {RatOf(500), RatOf(1500), Rat(4999, 2), RatOf(5000), RatOf(1000000)}

(***************************************************************************)
(* The script run.                                                         *)
(***************************************************************************)
\* The first run: the widgets return their default values and
\* calculate_projections has initialised its accumulators.
Init ==
    /\ monthly_new_users = 100
    /\ conversion_rate = RatOf(10)
    /\ current_avg_revenue = RatOf(25)
    /\ num_months = 12
    /\ pc = "loop"
    /\ month = 1
    /\ cumulative_users = 0
    /\ cumulative_converted = Zero
    /\ cumulative_revenue = Zero
    /\ data = <<>>
    /\ partner_revenue_per_student = Zero
    /\ additional_revenue_percentage = Zero
    /\ months_to_partner = NotComputed
    /\ zero_division = FALSE
    /\ probe = Zero
    /\ probe_tier = "none"
    /\ probe_share = 0

\* for month in range(1, num_months + 1): one pass of the loop body.
LoopIteration ==
    /\ pc = "loop"
    /\ month <= num_months
    /\ LET r == Iteration(month, monthly_new_users, conversion_rate,
                          cumulative_users, cumulative_converted, cumulative_revenue)
       IN  /\ cumulative_users' = r.cumulative_users
           /\ cumulative_converted' = r.cumulative_converted
           /\ cumulative_revenue' = r.cumulative_revenue
           /\ data' = Append(data, r.row)
    /\ month' = month + 1
    /\ UNCHANGED <<monthly_new_users, conversion_rate, current_avg_revenue,
                   num_months, pc, partner_revenue_per_student,
                   additional_revenue_percentage, months_to_partner,
                   zero_division, probe, probe_tier, probe_share>>

\* The loop is exhausted, df is returned and the comparison metrics are
\* computed.
ComparisonMetrics ==
    /\ pc = "loop"
    /\ month > num_months
    /\ LET per_student == PartnerRevenuePerStudent(conversion_rate, FinalShare(data))
           percentage  == AdditionalRevenuePercentage(per_student, current_avg_revenue)
       IN  /\ partner_revenue_per_student' = per_student
           /\ additional_revenue_percentage' = percentage
           /\ zero_division' = (zero_division \/ percentage.d = 0)
    /\ pc' = "insights"
    /\ UNCHANGED <<monthly_new_users, conversion_rate, current_avg_revenue,
                   num_months, month, cumulative_users, cumulative_converted,
                   cumulative_revenue, data, months_to_partner,
                   probe, probe_tier, probe_share>>

\* The "Key Insights" column: the months-to-Partner estimate.
KeyInsights ==
    /\ pc = "insights"
    /\ LET estimate == MonthsToPartner(monthly_new_users, conversion_rate)
       IN  /\ months_to_partner' = estimate
           /\ zero_division' = (zero_division \/ estimate.kind = "ZeroDivisionError")
    /\ pc' = "done"
    /\ UNCHANGED <<monthly_new_users, conversion_rate, current_avg_revenue,
                   num_months, month, cumulative_users, cumulative_converted,
                   cumulative_revenue, data, partner_revenue_per_student,
                   additional_revenue_percentage, probe, probe_tier, probe_share>>

\* A widget changes and the script runs again from the top with the new
\* values: nothing of the previous run is kept.
Rerun ==
    /\ pc = "done"
    /\ \E users \in UserValues, rate \in RateValues,
          avg \in AvgRevenueValues, months \in MonthValues :
          /\ monthly_new_users' = users
          /\ conversion_rate' = rate
          /\ current_avg_revenue' = avg
          /\ num_months' = months
    /\ pc' = "loop"
    /\ month' = 1
    /\ cumulative_users' = 0
    /\ cumulative_converted' = Zero
    /\ cumulative_revenue' = Zero
    /\ data' = <<>>
    /\ partner_revenue_per_student' = Zero
    /\ additional_revenue_percentage' = Zero
    /\ months_to_partner' = NotComputed
    /\ zero_division' = FALSE
    /\ UNCHANGED <<probe, probe_tier, probe_share>>

Next == LoopIteration \/ ComparisonMetrics \/ KeyInsights \/ Rerun

Spec == Init /\ [][Next]_vars

(***************************************************************************)
(* The tier lookup on its own: get_tier_name and calculate_revenue_share   *)
(* applied to one argument.                                                *)
(***************************************************************************)
LookupInit ==
    /\ monthly_new_users = 100
    /\ conversion_rate = RatOf(10)
    /\ current_avg_revenue = RatOf(25)
    /\ num_months = 12
    /\ pc = "lookup"
    /\ month = 1
    /\ cumulative_users = 0
    /\ cumulative_converted = Zero
    /\ cumulative_revenue = Zero
    /\ data = <<>>
    /\ partner_revenue_per_student = Zero
    /\ additional_revenue_percentage = Zero
    /\ months_to_partner = NotComputed
    /\ zero_division = FALSE
    /\ probe \in ProbeValues
    /\ probe_tier = "none"
    /\ probe_share = 0

TierLookup ==
    /\ pc = "lookup"
    /\ probe_tier' = get_tier_name(probe)
    /\ probe_share' = calculate_revenue_share(probe)
    /\ pc' = "looked_up"
    /\ UNCHANGED <<monthly_new_users, conversion_rate, current_avg_revenue,
                   num_months, month, cumulative_users, cumulative_converted,
                   cumulative_revenue, data, partner_revenue_per_student,
                   additional_revenue_percentage, months_to_partner,
                   zero_division, probe>>

LookupNext == TierLookup

LookupSpec == LookupInit /\ [][LookupNext]_vars

(***************************************************************************)
(* Properties.                                                             *)
(***************************************************************************)
Rows == 1..Len(data)

\* The conversions of month i and the running total after month i as the
\* closed forms users * rate / 100 * (1/2 or 1) and users * rate * (2i - 1) / 200.
ExactConverted(i) ==
    Mul(Mul(RatOf(monthly_new_users), conversion_rate),
        IF i = 1 THEN Rat(1, 200) ELSE Rat(1, 100))

ExactCumulative(i) ==
    IF i = 0 THEN Zero
    ELSE Mul(Mul(RatOf(monthly_new_users), conversion_rate), Rat(2 * i - 1, 200))

Leq(a, b) == Sub(b, a).n >= 0

TierRank(name) ==
    CASE name = "Affiliate" -> 1
      [] name = "Partner" -> 2
      [] name = "Gold Partner" -> 3
      [] name = "Owner" -> 4

RECURSIVE SumOfStoredMonthly(_)
SumOfStoredMonthly(i) ==
    IF i = 0 THEN 0 ELSE SumOfStoredMonthly(i - 1) + data[i].Converted_Users_Monthly

\* C1: for every row, the tier lookup applied to the stored (truncated)
\* 'Cumulative Converted' gives the row's stored 'Tier' and 'Revenue Share %'.
TierConsistency ==
    \A i \in Rows :
        /\ get_tier_name(RatOf(data[i].Cumulative_Converted)) = data[i].Tier
        /\ calculate_revenue_share(RatOf(data[i].Cumulative_Converted))
               = data[i].Revenue_Share_Pct

\* A row whose running total 999.5 was truncated to 999, just under a boundary.
TierConsistencyWitness ==
    \E i \in Rows :
        /\ ExactCumulative(i).d # 1
        /\ data[i].Cumulative_Converted = 999
        /\ data[i].Tier = "Affiliate"

\* C2 as stated: the stored converted-user count of the first row is exactly
\* half of the stored count of the second row.
TuningHalvingOfStoredCounts ==
    Len(data) >= 2 =>
        2 * data[1].Converted_Users_Monthly = data[2].Converted_Users_Monthly

\* C2 amended: the first row's gross revenue (39 times the untruncated
\* conversions) is exactly half of the second row's, and twice the first
\* row's stored count is the second row's stored count or one less.
TuningHalvingBeforeTruncation ==
    Len(data) >= 2 =>
        /\ Mul(data[1].Gross_Revenue, RatOf(2)) = data[2].Gross_Revenue
        /\ 2 * data[1].Converted_Users_Monthly <= data[2].Converted_Users_Monthly
        /\ data[2].Converted_Users_Monthly <= 2 * data[1].Converted_Users_Monthly + 1

\* Two rows whose stored counts are not in the ratio 1 : 2.
TuningHalvingWitness ==
    /\ Len(data) >= 2
    /\ data[1].Converted_Users_Monthly > 0
    /\ data[2].Converted_Users_Monthly = 2 * data[1].Converted_Users_Monthly + 1

\* C3: the lookup follows the half-open ranges [0,1000) Affiliate/30,
\* [1000,2000) Partner/60, [2000,3000) Gold Partner/65, [3000,..) Owner/70,
\* name and percentage always of the same row of the table.
BoundaryExactness ==
    pc = "looked_up" =>
        /\ probe.n < 1000 * probe.d
               => probe_tier = "Affiliate" /\ probe_share = 30
        /\ (1000 * probe.d <= probe.n /\ probe.n < 2000 * probe.d)
               => probe_tier = "Partner" /\ probe_share = 60
        /\ (2000 * probe.d <= probe.n /\ probe.n < 3000 * probe.d)
               => probe_tier = "Gold Partner" /\ probe_share = 65
        /\ 3000 * probe.d <= probe.n
               => probe_tier = "Owner" /\ probe_share = 70
        /\ <<probe_tier, probe_share>> \in
               {<<"Affiliate", 30>>, <<"Partner", 60>>,
                <<"Gold Partner", 65>>, <<"Owner", 70>>}

\* The lookup of exactly 1000 has returned Partner/60.
BoundaryExactnessWitness ==
    /\ pc = "looked_up"
    /\ probe = RatOf(1000)
    /\ probe_tier = "Partner"
    /\ probe_share = 60

\* C4: from each row to the next the cumulative users, cumulative converted
\* and cumulative revenue never decrease, and every partner revenue is >= 0.
Monotonicity ==
    \A i \in Rows :
        /\ Leq(Zero, data[i].Partner_Revenue)
        /\ i > 1 =>
            /\ data[i - 1].Cumulative_Users <= data[i].Cumulative_Users
            /\ data[i - 1].Cumulative_Converted <= data[i].Cumulative_Converted
            /\ Leq(data[i - 1].Cumulative_Revenue, data[i].Cumulative_Revenue)

\* Three rows with growing totals.
MonotonicityWitness ==
    /\ Len(data) >= 3
    /\ data[2].Cumulative_Converted < data[3].Cumulative_Converted
    /\ ~Leq(data[3].Cumulative_Revenue, data[2].Cumulative_Revenue)

\* C5: within one run the share percentage and the tier (in the order
\* Affiliate, Partner, Gold Partner, Owner) of a later row are never lower
\* than those of an earlier row.
TiersNeverDowngrade ==
    \A i \in Rows : \A j \in Rows :
        i < j =>
            /\ data[i].Revenue_Share_Pct <= data[j].Revenue_Share_Pct
            /\ TierRank(data[i].Tier) <= TierRank(data[j].Tier)

\* A run that has moved through all four tiers.
TiersNeverDowngradeWitness ==
    /\ Len(data) >= 4
    /\ data[1].Tier = "Affiliate"
    /\ data[2].Tier = "Partner"
    /\ data[3].Tier = "Gold Partner"
    /\ data[4].Tier = "Owner"

ZeroRateSafety ==
    conversion_rate = Zero =>
        /\ \A i \in Rows :
               /\ data[i].Converted_Users_Monthly = 0
               /\ data[i].Cumulative_Converted = 0
               /\ data[i].Gross_Revenue = Zero
               /\ data[i].Partner_Revenue = Zero
               /\ data[i].Cumulative_Revenue = Zero
        /\ pc = "done" => months_to_partner = NotApplicable

\* A finished run with users but a zero rate.
ZeroRateSafetyWitness ==
    /\ pc = "done"
    /\ conversion_rate = Zero
    /\ monthly_new_users > 0
    /\ Len(data) >= 2
    /\ months_to_partner = NotApplicable

\* C8: the additional revenue per user is 39 * rate/100 * (share of the last
\* row)/100; the additional revenue percent is that value / current average
\* * 100 when the average is > 0 and 0 when it is 0; no division by zero is
\* ever evaluated.
ComparisonMetricsFallback ==
    /\ ~zero_division
    /\ pc \in {"insights", "done"} =>
           /\ partner_revenue_per_student =
                  Rat(39 * conversion_rate.n * data[Len(data)].Revenue_Share_Pct,
                      10000 * conversion_rate.d)
           /\ current_avg_revenue.n > 0 =>
                  Mul(additional_revenue_percentage, current_avg_revenue)
                      = Mul(partner_revenue_per_student, RatOf(100))
           /\ current_avg_revenue.n = 0 => additional_revenue_percentage = Zero
    /\ pc = "done" => months_to_partner.kind \in {"int", "N/A"}

\* A finished run with a zero current average and a positive revenue per user.
ComparisonMetricsFallbackWitness ==
    /\ pc = "done"
    /\ current_avg_revenue = Zero
    /\ partner_revenue_per_student.n > 0
    /\ additional_revenue_percentage = Zero
    /\ data[1].Revenue_Share_Pct < data[Len(data)].Revenue_Share_Pct

ShareFrom(threshold) ==
    CASE threshold = 1000 -> 60
      [] threshold = 2000 -> 65
      [] threshold = 3000 -> 70

\* C9: each row's share is that of the running total after the month's
\* conversions were added, the whole partner revenue of the month is
\* conversions * 39 * share / 100, so a month that brings the total to or
\* past a threshold is paid at the new share; the cumulative revenue is the
\* running sum of the partner revenues and the 50% target is half of it.
PostIncrementTier ==
    \A i \in Rows :
        LET before == ExactCumulative(i - 1)
            after  == ExactCumulative(i)
            share  == data[i].Revenue_Share_Pct
            prev   == IF i = 1 THEN Zero ELSE data[i - 1].Cumulative_Revenue
        IN  /\ share = calculate_revenue_share(after)
            /\ \A t \in {1000, 2000, 3000} :
                   (Lt(before, RatOf(t)) /\ Leq(RatOf(t), after))
                       => share >= ShareFrom(t)
            /\ data[i].Gross_Revenue = Mul(ExactConverted(i), RatOf(39))
            /\ data[i].Partner_Revenue
                   = Mul(data[i].Gross_Revenue, Rat(share, 100))
            /\ data[i].Cumulative_Revenue = Add(prev, data[i].Partner_Revenue)
            /\ Add(data[i].Target_50_Pct, data[i].Target_50_Pct)
                   = data[i].Cumulative_Revenue

\* A month after the first whose conversions cross a threshold and are paid
\* at the new share.
PostIncrementTierWitness ==
    \E i \in Rows :
        /\ i >= 2
        /\ data[i - 1].Revenue_Share_Pct = 30
        /\ data[i].Revenue_Share_Pct = 60
        /\ data[i].Partner_Revenue
               = Mul(data[i].Gross_Revenue, Rat(60, 100))
        /\ data[i].Partner_Revenue.n > 0

\* C10: when the estimate m is a number, no row before month m has left the
\* Affiliate tier, and a run of more than m months has left it by month m + 1.
MonthsEstimateWithinOne ==
    (pc = "done" /\ months_to_partner.kind = "int") =>
        LET m == months_to_partner.value
        IN  /\ \A i \in Rows : data[i].Tier # "Affiliate" => i >= m
            /\ Len(data) >= m + 1 => data[m + 1].Tier # "Affiliate"

\* A finished run that leaves the Affiliate tier one month after the estimate.
MonthsEstimateWithinOneWitness ==
    /\ pc = "done"
    /\ months_to_partner.kind = "int"
    /\ months_to_partner.value >= 2
    /\ Len(data) >= months_to_partner.value + 1
    /\ data[months_to_partner.value].Tier = "Affiliate"
    /\ data[months_to_partner.value + 1].Tier # "Affiliate"

\* A finished run that leaves the Affiliate tier in the estimated month.
MonthsEstimateExactWitness ==
    /\ pc = "done"
    /\ months_to_partner.kind = "int"
    /\ months_to_partner.value >= 2
    /\ Len(data) >= months_to_partner.value
    /\ data[months_to_partner.value - 1].Tier = "Affiliate"
    /\ data[months_to_partner.value].Tier # "Affiliate"

====
